---- MODULE Spec2Model ----
(***************************************************************************)
(* Model of the cron-triggered automation handler (/cron/run-automation)   *)
(* and of the per-user automation settings it reads.  Time is counted in   *)
(* whole hours.  The handler scans the users that have automation enabled, *)
(* applies the cadence gate to each one, and attempts an automation run    *)
(* (create a draft, optionally publish it) for at most                     *)
(* CRON_AUTOMATION_MAX_USERS_PER_RUN users per invocation.  The module     *)
(* also models the frontend's ModalProvider: the confirm and input dialogs *)
(* and the promises that showModal and showInput hand to their callers.    *)
(***************************************************************************)
EXTENDS Integers, Sequences, FiniteSets, TLC

\* ---------------------------------------------------------------- bounds
NumUsers == 2
\* Calls of the cron endpoint and settings changes in a behaviour of Spec.
MaxInvocations == 1
MaxSettingUpdates == 1
\* Calls of the cron endpoint in a behaviour of SpecGate.
MaxGateInvocations == 2
\* Calls of the cron endpoint in a behaviour of SpecClock.
MaxClockInvocations == 3
\* Calls of the cron endpoint in a behaviour of SpecAsync.
MaxAsyncInvocations == 2
\* Calls of showModal and of showInput in a behaviour, and the longest text
\* typed into the input dialog.
MaxModalShows == 4
MaxInputShows == 2
MaxLen == 3

\* ------------------------------------------------------- program constants
DailyThresholdHours == 23
WeeklyThresholdHours == 168
DefaultMaxUsersPerRun == 1

Null == -1
UserIds == 1..NumUsers
Frequencies == {"daily", "weekly"}
Occupations == {"", "engineer"}
\* Hours the external scheduler may let pass between two calls.
TriggerGaps == {23, 192}
\* A finer set of gaps, used where only the gate is exercised.
GateGaps == {1, 22, 23, 24, 144, 167, 168, 169, 192}

VARIABLES
    now,                \* current time, in hours
    clerk_users,        \* clerk_user_id -> automation columns of clerk_users
    posts,              \* rows of public.posts created by the automation
    automation_logs,    \* rows of public.automation_logs, oldest first
    max_users_per_run,  \* CRON_AUTOMATION_MAX_USERS_PER_RUN
    run,                \* the invocation in progress
    response,           \* body returned by the last finished invocation
    invocations,        \* number of invocations so far
    setting_updates,    \* number of settings changes so far
    background,         \* background tasks of the acknowledged invocations
    modalState,         \* ModalProvider: state of the confirm dialog
    modalResolveRef,    \* ModalProvider: promise the confirm dialog resolves
    inputModalState,    \* ModalProvider: state of the input dialog
    inputResolveRef,    \* ModalProvider: promise the input dialog resolves
    value,              \* InputModal: text in the input field
    modalPromises,      \* promises returned by showModal, oldest first
    inputPromises,      \* promises returned by showInput, oldest first
    location,           \* router: current path
    auth,               \* Clerk: isLoaded, isUserLoaded, isSignedIn, user
    view,               \* AuthPage: 'signin' or 'signup'
    lastSyncedSnapshot, \* ProtectedRoute: snapshot sent to syncClerkUser
    dashboard,          \* DashboardPage: filter, posts, currentPost, ...
    requests,           \* API requests sent by the pages, oldest first
    toasts,             \* ModalProvider: toasts on screen and their timers
    automations,        \* AutomationsPage: setting and the two drafts
    activity            \* inputs and result of the activityData memo

\* State of the frontend's modal provider and state of the backend.
uiVars == <<modalState, modalResolveRef, inputModalState, inputResolveRef,
            value, modalPromises, inputPromises>>

pageVars == <<location, auth, view, lastSyncedSnapshot, dashboard, requests,
              toasts, automations, activity>>

cronVars == <<now, clerk_users, posts, automation_logs, max_users_per_run,
              run, response, invocations, setting_updates, background>>

vars == <<cronVars, uiVars, pageVars>>

\* ------------------------------------------------------------ cadence gate
Threshold(frequency) ==
    IF frequency = "daily" THEN DailyThresholdHours ELSE WeeklyThresholdHours

\* Variants of the gate with a slip in the comparison.
Eligible_NonStrict(frequency, last_auto_run_at, t) ==
    \/ last_auto_run_at = Null
    \/ t - last_auto_run_at >= Threshold(frequency)

Eligible_NoNullCase(frequency, last_auto_run_at, t) ==
    t - last_auto_run_at > Threshold(frequency)

Eligible(frequency, last_auto_run_at, t) ==
    \/ last_auto_run_at = Null
    \/ t - last_auto_run_at > Threshold(frequency)

\* ------------------------------------------------------------------ state
NewUser ==
    [enabled |-> FALSE, frequency |-> "daily", occupation |-> "",
     auto_publish |-> FALSE, last_auto_run_at |-> Null]

IdleRun ==
    [active |-> FALSE, at |-> 0, pending |-> {}, skipped |-> {},
     attempted |-> {}, posts_created |-> 0, errors |-> <<>>]

NoResponse == [users_processed |-> 0, posts_created |-> 0, errors |-> <<>>]

\* The modal provider after mounting: both dialogs closed, no promise
\* handed out.  An onConfirm of FALSE stands for null, a text is a sequence
\* of characters.
defaultModalState == [isOpen |-> FALSE, title |-> "", onConfirm |-> FALSE]

defaultInputModalState == [isOpen |-> FALSE, defaultValue |-> <<>>]

UiInit ==
    /\ modalState = defaultModalState
    /\ modalResolveRef = Null
    /\ inputModalState = defaultInputModalState
    /\ inputResolveRef = Null
    /\ value = <<>>
    /\ modalPromises = <<>>
    /\ inputPromises = <<>>

\* The pages before anything is shown: the router at the dashboard, Clerk
\* not loaded, nothing fetched.
NoUser == "null"

NoAuth ==
    [isLoaded |-> FALSE, isUserLoaded |-> FALSE, isSignedIn |-> FALSE,
     user |-> NoUser]

NoFilter == "none"

NoPost == [id |-> Null, status |-> "none"]

NoDashboard ==
    [mounted |-> FALSE, filter |-> NoFilter, posts |-> {},
     currentPost |-> NoPost, scheduleFor |-> <<>>]

NoAutomations ==
    [setting |-> [enabled |-> FALSE, occupation |-> <<>>,
                  frequency |-> "daily"],
     occupationDraft |-> <<>>, frequencyDraft |-> "daily"]

UTC == [base |-> 0, shift |-> 0, at |-> Null]

NoActivity ==
    [now |-> 0, zone |-> UTC, created |-> <<>>, data |-> <<>>,
     computed |-> FALSE]

PagesInit ==
    /\ location = "/"
    /\ auth = NoAuth
    /\ view = "signin"
    /\ lastSyncedSnapshot = NoUser
    /\ dashboard = NoDashboard
    /\ requests = <<>>
    /\ toasts = <<>>
    /\ automations = NoAutomations
    /\ activity = NoActivity

\* A user that had one successful automation run at hour 0, and the rows
\* that run left behind.
ReturningUser ==
    [enabled |-> TRUE, frequency |-> "daily", occupation |-> "engineer",
     auto_publish |-> FALSE, last_auto_run_at |-> 0]

LogEntry(u, t, status, created, message) ==
    [clerk_user_id |-> u, run_at |-> t, status |-> status,
     posts_created |-> created, error_message |-> message]

PostRow(u, t, status, attempts) ==
    [clerk_user_id |-> u, status |-> status, publish_attempts |-> attempts,
     created_at |-> t]

\* The members of S in increasing order.
InOrder(S) == SelectSeq([i \in 1..NumUsers |-> i], LAMBDA u : u \in S)

\* The database at hour 0: every user is either new or has run once.
Init ==
    /\ now = 0
    /\ \E returning \in SUBSET UserIds :
          /\ clerk_users = [u \in UserIds |->
                              IF u \in returning THEN ReturningUser ELSE NewUser]
          /\ posts = [i \in 1..Cardinality(returning) |->
                        PostRow(InOrder(returning)[i], 0, "draft", 0)]
          /\ automation_logs = [i \in 1..Cardinality(returning) |->
                        LogEntry(InOrder(returning)[i], 0, "success", 1, "")]
    /\ max_users_per_run \in DefaultMaxUsersPerRun..NumUsers
    /\ run = IdleRun
    /\ response = NoResponse
    /\ invocations = 0
    /\ setting_updates = 0
    /\ background = <<>>
    /\ UiInit
    /\ PagesInit

\* --------------------------------------------------- PATCH /me/automation
\* Every field of the payload is optional; a field that is present replaces
\* the stored one.  last_auto_run_at is not a field of the payload.
Merge(row, payload) ==
    [f \in DOMAIN row |-> IF f \in DOMAIN payload THEN payload[f] ELSE row[f]]

SetAutomationSetting(u, payload) ==
    /\ setting_updates < MaxSettingUpdates
    /\ Merge(clerk_users[u], payload) # clerk_users[u]
    /\ clerk_users' = [clerk_users EXCEPT ![u] = Merge(@, payload)]
    /\ setting_updates' = setting_updates + 1
    /\ UNCHANGED <<now, posts, automation_logs, max_users_per_run, run,
                   response, invocations>>
    /\ UNCHANGED <<background, uiVars, pageVars>>

\* The three requests the Automations page sends.
UpdateSettings ==
    \E u \in UserIds :
        \/ \E b \in BOOLEAN : SetAutomationSetting(u, [enabled |-> b])
        \/ \E f \in Frequencies :
               \/ SetAutomationSetting(u, [frequency |-> f])
               \/ \E o \in Occupations \ {""} :
                      SetAutomationSetting(u, [occupation |-> o, frequency |-> f])
        \/ \E b \in BOOLEAN : SetAutomationSetting(u, [auto_publish |-> b])

\* --------------------------------------------------- /cron/run-automation
\* The scheduler calls the endpoint: the handler reads the users that have
\* automation enabled.
\* Variant: the scan takes every user, enabled or not.
StartRun_AllUsers(t) ==
    [IdleRun EXCEPT
       !.active = TRUE,
       !.at = t,
       !.pending = UserIds]

StartRun(t) ==
    [IdleRun EXCEPT
       !.active = TRUE,
       !.at = t,
       !.pending = {u \in UserIds : clerk_users[u].enabled}]

\* The scheduler calls the endpoint gap hours after its previous call.
Call(gap) ==
    /\ ~run.active
    /\ now' = now + gap
    /\ invocations' = invocations + 1
    /\ run' = StartRun(now + gap)
    /\ UNCHANGED <<clerk_users, posts, automation_logs, max_users_per_run,
                   response, setting_updates>>
    /\ UNCHANGED <<background, uiVars, pageVars>>

Trigger(gap) ==
    /\ invocations < MaxInvocations
    /\ Call(gap)

\* Variant: the cap lets one user too many through.
CapReached_OffByOne == Cardinality(run.attempted) > max_users_per_run

\* The invocation has attempted as many users as the cap allows.
CapReached == Cardinality(run.attempted) >= max_users_per_run

\* The gate rejects user u: nothing is written.
SkipUser(u) ==
    /\ run.active
    /\ u \in run.pending
    /\ ~CapReached
    /\ ~Eligible(clerk_users[u].frequency,
                 clerk_users[u].last_auto_run_at, run.at)
    /\ run' = [run EXCEPT !.pending = @ \ {u}, !.skipped = @ \cup {u}]
    /\ UNCHANGED <<now, clerk_users, posts, automation_logs,
                   max_users_per_run, response, invocations, setting_updates>>
    /\ UNCHANGED <<background, uiVars, pageVars>>

\* Variant: a publish error is kept on the post as status failed.
PostStatus_FailedOnError(auto_publish, publishOk) ==
    IF auto_publish
    THEN (IF publishOk THEN "published" ELSE "failed")
    ELSE "draft"

\* Variant: the post is published whenever LinkedIn accepts it, whatever the
\* user's setting.
PostStatus_IgnoresSetting(auto_publish, publishOk) ==
    IF publishOk THEN "published" ELSE "draft"

\* Status of the post an automation run leaves behind.
PostStatus(auto_publish, publishOk) ==
    IF auto_publish /\ publishOk THEN "published" ELSE "draft"

\* State after the automation run for user u, by outcome of the calls to
\* the content provider (createOk) and to LinkedIn (publishOk).
\* Variant: a failed run aborts the scan of the remaining users.
AttemptFailed_AbortsRun(u) ==
    [clerk_users |-> clerk_users,
     posts |-> posts,
     automation_logs |->
         Append(automation_logs,
                LogEntry(u, run.at, "failed", 0, "post creation failed")),
     run |-> [run EXCEPT
                !.pending = {},
                !.attempted = @ \cup {u},
                !.errors = Append(@, [user |-> u,
                                      message |-> "post creation failed"])]]

\* Variant: a failed run is reported in the response and not logged.
AttemptFailed_NoLog(u) ==
    [clerk_users |-> clerk_users,
     posts |-> posts,
     automation_logs |-> automation_logs,
     run |-> [run EXCEPT
                !.pending = @ \ {u},
                !.attempted = @ \cup {u},
                !.errors = Append(@, [user |-> u,
                                      message |-> "post creation failed"])]]

\* Variant: a failed run advances the gate all the same.
AttemptFailed_AdvancesGate(u) ==
    [clerk_users |-> [clerk_users EXCEPT ![u].last_auto_run_at = run.at],
     posts |-> posts,
     automation_logs |->
         Append(automation_logs,
                LogEntry(u, run.at, "failed", 0, "post creation failed")),
     run |-> [run EXCEPT
                !.pending = @ \ {u},
                !.attempted = @ \cup {u},
                !.errors = Append(@, [user |-> u,
                                      message |-> "post creation failed"])]]

AttemptFailed(u) ==
    [clerk_users |-> clerk_users,
     posts |-> posts,
     automation_logs |->
         Append(automation_logs,
                LogEntry(u, run.at, "failed", 0, "post creation failed")),
     run |-> [run EXCEPT
                !.pending = @ \ {u},
                !.attempted = @ \cup {u},
                !.errors = Append(@, [user |-> u,
                                      message |-> "post creation failed"])]]

\* Variant: the gate is advanced only when the post was published.
AttemptSucceeded_StampsOnPublish(u, publishOk) ==
    [clerk_users |->
         IF clerk_users[u].auto_publish /\ ~publishOk
         THEN clerk_users
         ELSE [clerk_users EXCEPT ![u].last_auto_run_at = run.at],
     posts |->
         Append(posts,
                PostRow(u, run.at,
                        PostStatus(clerk_users[u].auto_publish, publishOk),
                        IF clerk_users[u].auto_publish THEN 1 ELSE 0)),
     automation_logs |->
         Append(automation_logs, LogEntry(u, run.at, "success", 1, "")),
     run |-> [run EXCEPT
                !.pending = @ \ {u},
                !.attempted = @ \cup {u},
                !.posts_created = @ + 1]]

\* Variant: the timestamp update is not restricted to the user that ran.
AttemptSucceeded_StampsAll(u, publishOk) ==
    [clerk_users |-> [v \in DOMAIN clerk_users |->
                        [clerk_users[v] EXCEPT !.last_auto_run_at = run.at]],
     posts |->
         Append(posts,
                PostRow(u, run.at,
                        PostStatus(clerk_users[u].auto_publish, publishOk),
                        IF clerk_users[u].auto_publish THEN 1 ELSE 0)),
     automation_logs |->
         Append(automation_logs, LogEntry(u, run.at, "success", 1, "")),
     run |-> [run EXCEPT
                !.pending = @ \ {u},
                !.attempted = @ \cup {u},
                !.posts_created = @ + 1]]

AttemptSucceeded(u, publishOk) ==
    [clerk_users |-> [clerk_users EXCEPT ![u].last_auto_run_at = run.at],
     posts |->
         Append(posts,
                PostRow(u, run.at,
                        PostStatus(clerk_users[u].auto_publish, publishOk),
                        IF clerk_users[u].auto_publish THEN 1 ELSE 0)),
     automation_logs |->
         Append(automation_logs, LogEntry(u, run.at, "success", 1, "")),
     run |-> [run EXCEPT
                !.pending = @ \ {u},
                !.attempted = @ \cup {u},
                !.posts_created = @ + 1]]

Attempt(u, createOk, publishOk) ==
    IF createOk THEN AttemptSucceeded(u, publishOk) ELSE AttemptFailed(u)

\* The scan may start an automation run for user u.
CanAttempt(u) ==
    /\ run.active
    /\ u \in run.pending
    /\ ~CapReached
    /\ Eligible(clerk_users[u].frequency,
                clerk_users[u].last_auto_run_at, run.at)

ProcessUser(u, createOk, publishOk) ==
    /\ CanAttempt(u)
    /\ LET after == Attempt(u, createOk, publishOk) IN
        /\ clerk_users' = after.clerk_users
        /\ posts' = after.posts
        /\ automation_logs' = after.automation_logs
        /\ run' = after.run
    /\ UNCHANGED <<now, max_users_per_run, response, invocations,
                   setting_updates>>
    /\ UNCHANGED <<background, uiVars, pageVars>>

\* The scan ends when the cap is reached or no enabled user is left.
Finish ==
    /\ run.active
    /\ \/ run.pending = {}
       \/ CapReached
    /\ response' = [users_processed |-> Cardinality(run.attempted),
                    posts_created |-> run.posts_created,
                    errors |-> run.errors]
    /\ run' = [run EXCEPT !.active = FALSE]
    /\ UNCHANGED <<now, clerk_users, posts, automation_logs,
                   max_users_per_run, invocations, setting_updates>>
    /\ UNCHANGED <<background, uiVars, pageVars>>

Next ==
    \/ UpdateSettings
    \/ \E gap \in TriggerGaps : Trigger(gap)
    \/ \E u \in UserIds : SkipUser(u)
    \/ \E u \in UserIds, createOk \in BOOLEAN, publishOk \in BOOLEAN :
           ProcessUser(u, createOk, publishOk)
    \/ Finish

Spec == Init /\ [][Next]_vars

\* The handler with one user that has automation enabled, from an empty
\* database, with the finer set of gaps between calls.
InitGate ==
    /\ now = 0
    /\ \E f \in Frequencies, p \in BOOLEAN :
          clerk_users = [u \in UserIds |->
                           [NewUser EXCEPT !.enabled = (u = 1), !.frequency = f,
                                           !.auto_publish = p]]
    /\ posts = <<>>
    /\ automation_logs = <<>>
    /\ max_users_per_run \in DefaultMaxUsersPerRun..NumUsers
    /\ run = IdleRun
    /\ response = NoResponse
    /\ invocations = 0
    /\ setting_updates = 0

    /\ background = <<>>
    /\ UiInit
    /\ PagesInit
GateTrigger(gap) ==
    /\ invocations < MaxGateInvocations
    /\ Call(gap)

NextGate ==
    \/ \E gap \in GateGaps : GateTrigger(gap)
    \/ \E u \in UserIds : SkipUser(u)
    \/ \E u \in UserIds, createOk \in BOOLEAN, publishOk \in BOOLEAN :
           ProcessUser(u, createOk, publishOk)
    \/ Finish

SpecGate == InitGate /\ [][NextGate]_vars

\* The handler under a scheduler that never stops calling.  To keep the
\* state finite the clock is relative: now stays at LiveWindow and a call
\* that comes gap hours after the previous one moves every stored
\* last_auto_run_at back by gap hours (a timestamp older than both
\* thresholds stays at 0); the audit tables, which the handler never reads,
\* are not kept.
LiveWindow == WeeklyThresholdHours + 1
LiveGaps == {0, 24}

InitLive ==
    /\ now = LiveWindow
    /\ clerk_users \in [UserIds -> {[NewUser EXCEPT !.enabled = e, !.frequency = f] :
                                        e \in BOOLEAN, f \in Frequencies}]
    /\ posts = <<>>
    /\ automation_logs = <<>>
    /\ max_users_per_run \in DefaultMaxUsersPerRun..NumUsers
    /\ run = IdleRun
    /\ response = NoResponse
    /\ invocations = 0
    /\ setting_updates = 0

    /\ background = <<>>
    /\ UiInit
    /\ PagesInit
Aged(last_auto_run_at, gap) ==
    IF last_auto_run_at = Null THEN Null
    ELSE IF last_auto_run_at - gap < 0 THEN 0
    ELSE last_auto_run_at - gap

LiveTrigger(gap) ==
    /\ ~run.active
    /\ clerk_users' = [u \in UserIds |->
                          [clerk_users[u] EXCEPT
                             !.last_auto_run_at = Aged(@, gap)]]
    /\ run' = StartRun(now)
    /\ UNCHANGED <<now, posts, automation_logs, max_users_per_run, response,
                   invocations, setting_updates>>
    /\ UNCHANGED <<background, uiVars, pageVars>>

LiveProcessUser(u, createOk, publishOk) ==
    /\ CanAttempt(u)
    /\ LET after == Attempt(u, createOk, publishOk) IN
        /\ clerk_users' = after.clerk_users
        /\ run' = after.run
    /\ UNCHANGED <<now, posts, automation_logs, max_users_per_run, response,
                   invocations, setting_updates>>
    /\ UNCHANGED <<background, uiVars, pageVars>>

NextLive ==
    \/ \E gap \in LiveGaps : LiveTrigger(gap)
    \/ \E u \in UserIds : SkipUser(u)
    \/ \E u \in UserIds, createOk \in BOOLEAN, publishOk \in BOOLEAN :
           LiveProcessUser(u, createOk, publishOk)
    \/ Finish

\* The scheduler keeps calling and the handler keeps taking its next step;
\* nothing is assumed about which user the scan takes next or about the
\* outcome of the calls to the providers.
SpecLive ==
    /\ InitLive
    /\ [][NextLive]_vars
    /\ WF_vars(\E gap \in LiveGaps : LiveTrigger(gap))
    /\ WF_vars(\E u \in UserIds : SkipUser(u))
    /\ WF_vars(\E u \in UserIds, createOk \in BOOLEAN, publishOk \in BOOLEAN :
                  LiveProcessUser(u, createOk, publishOk))
    /\ WF_vars(Finish)

\* The handler with the clock read to the minute, as the timestamps are
\* stored, for one daily user: in SpecClock now, run.at, last_auto_run_at
\* and the tables' timestamps count minutes.
MinutesPerHour == 60
MinutesPerDay == 24 * MinutesPerHour
\* Minute of the first day at which the behaviour starts.
ClockStarts == {0, 30}
\* Minutes between two calls: half an hour, 23 hours to the minute, and
\* gaps within an hour of 24 hours.
ClockGaps == {30, 1380, 1381, 1410, 1440, 1499}

\* Variant: the daily window is a full 24 hours.
ClockEligible_FullDay(frequency, last_auto_run_at, t) ==
    \/ last_auto_run_at = Null
    \/ t - last_auto_run_at >
           (IF frequency = "daily" THEN 24 ELSE WeeklyThresholdHours) *
               MinutesPerHour

ClockEligible(frequency, last_auto_run_at, t) ==
    \/ last_auto_run_at = Null
    \/ t - last_auto_run_at > Threshold(frequency) * MinutesPerHour

InitClock ==
    /\ now \in ClockStarts
    /\ clerk_users = [u \in UserIds |-> [NewUser EXCEPT !.enabled = (u = 1)]]
    /\ posts = <<>>
    /\ automation_logs = <<>>
    /\ max_users_per_run \in DefaultMaxUsersPerRun..NumUsers
    /\ run = IdleRun
    /\ response = NoResponse
    /\ invocations = 0
    /\ setting_updates = 0

    /\ background = <<>>
    /\ UiInit
    /\ PagesInit
ClockTrigger(gap) ==
    /\ invocations < MaxClockInvocations
    /\ Call(gap)

ClockSkipUser(u) ==
    /\ run.active
    /\ u \in run.pending
    /\ ~CapReached
    /\ ~ClockEligible(clerk_users[u].frequency,
                      clerk_users[u].last_auto_run_at, run.at)
    /\ run' = [run EXCEPT !.pending = @ \ {u}, !.skipped = @ \cup {u}]
    /\ UNCHANGED <<now, clerk_users, posts, automation_logs,
                   max_users_per_run, response, invocations, setting_updates>>
    /\ UNCHANGED <<background, uiVars, pageVars>>

ClockProcessUser(u, createOk, publishOk) ==
    /\ run.active
    /\ u \in run.pending
    /\ ~CapReached
    /\ ClockEligible(clerk_users[u].frequency,
                     clerk_users[u].last_auto_run_at, run.at)
    /\ LET after == Attempt(u, createOk, publishOk) IN
        /\ clerk_users' = after.clerk_users
        /\ posts' = after.posts
        /\ automation_logs' = after.automation_logs
        /\ run' = after.run
    /\ UNCHANGED <<now, max_users_per_run, response, invocations,
                   setting_updates>>
    /\ UNCHANGED <<background, uiVars, pageVars>>

NextClock ==
    \/ \E gap \in ClockGaps : ClockTrigger(gap)
    \/ \E u \in UserIds : ClockSkipUser(u)
    \/ \E u \in UserIds, createOk \in BOOLEAN, publishOk \in BOOLEAN :
           ClockProcessUser(u, createOk, publishOk)
    \/ Finish

SpecClock == InitClock /\ [][NextClock]_vars

\* The handler as an endpoint that answers 202 Accepted at once and does
\* the scan in a background task: the response is sent before the task has
\* looked at any user, the task reads a user's gate, generates (trends, AI,
\* optional publish) and only then writes, and the scheduler may call again
\* while earlier tasks are still at work.  Time is in hours; a gap of 0 is a
\* call within the same hour.
AsyncGaps == {0, 1, 24}

\* What the acknowledgment may say: it is sent before the run, so it is one
\* fixed body of the documented shape.
AckBodies ==
    {NoResponse, [users_processed |-> 1, posts_created |-> 1, errors |-> <<>>]}

AsyncTask(t) ==
    [at |-> t,
     pending |-> {u \in UserIds : clerk_users[u].enabled},
     current |-> Null,
     skipped |-> {},
     attempted |-> {},
     posts_created |-> 0,
     errors |-> <<>>]

InitAsync ==
    /\ now = 0
    /\ \E f \in Frequencies :
          clerk_users = [u \in UserIds |->
                           [NewUser EXCEPT !.enabled = (u = 1), !.frequency = f]]
    /\ posts = <<>>
    /\ automation_logs = <<>>
    /\ max_users_per_run \in DefaultMaxUsersPerRun..NumUsers
    /\ run = IdleRun
    /\ response = NoResponse
    /\ invocations = 0
    /\ setting_updates = 0
    /\ background = <<>>
    /\ UiInit
    /\ PagesInit

\* The scheduler calls the endpoint: the task is queued and the
\* acknowledgment returned.
AsyncCall(gap) ==
    /\ invocations < MaxAsyncInvocations
    /\ now' = now + gap
    /\ invocations' = invocations + 1
    /\ background' = Append(background, AsyncTask(now + gap))
    /\ \E body \in AckBodies : response' = body
    /\ UNCHANGED <<clerk_users, posts, automation_logs, max_users_per_run,
                   run, setting_updates, uiVars, pageVars>>

AsyncCapReached(task) ==
    Cardinality(task.attempted \cup
                (IF task.current = Null THEN {} ELSE {task.current}))
        >= max_users_per_run

\* Task k has nothing left to do.
AsyncDone(task) ==
    /\ task.current = Null
    /\ task.pending = {} \/ AsyncCapReached(task)

\* Task k reads the gate of user u and either skips the user or starts
\* generating.
AsyncReadGate(k, u) ==
    /\ k \in 1..Len(background)
    /\ background[k].current = Null
    /\ u \in background[k].pending
    /\ ~AsyncCapReached(background[k])
    /\ background' =
          IF Eligible(clerk_users[u].frequency,
                      clerk_users[u].last_auto_run_at, background[k].at)
          THEN [background EXCEPT ![k].pending = @ \ {u}, ![k].current = u]
          ELSE [background EXCEPT ![k].pending = @ \ {u},
                                  ![k].skipped = @ \cup {u}]
    /\ UNCHANGED <<now, clerk_users, posts, automation_logs,
                   max_users_per_run, run, response, invocations,
                   setting_updates, uiVars, pageVars>>

\* Task k finishes the run it started for its current user and writes the
\* outcome.
AsyncWrite(k, createOk, publishOk) ==
    /\ k \in 1..Len(background)
    /\ background[k].current # Null
    /\ LET u == background[k].current
           t == background[k].at
       IN  IF createOk
           THEN /\ clerk_users' =
                       [clerk_users EXCEPT ![u].last_auto_run_at = t]
                /\ posts' =
                       Append(posts,
                              PostRow(u, t,
                                      PostStatus(clerk_users[u].auto_publish,
                                                 publishOk),
                                      IF clerk_users[u].auto_publish
                                      THEN 1 ELSE 0))
                /\ automation_logs' =
                       Append(automation_logs,
                              LogEntry(u, t, "success", 1, ""))
                /\ background' =
                       [background EXCEPT ![k].current = Null,
                                          ![k].attempted = @ \cup {u},
                                          ![k].posts_created = @ + 1]
           ELSE /\ automation_logs' =
                       Append(automation_logs,
                              LogEntry(u, t, "failed", 0,
                                       "post creation failed"))
                /\ background' =
                       [background EXCEPT
                          ![k].current = Null,
                          ![k].attempted = @ \cup {u},
                          ![k].errors =
                              Append(@, [user |-> u,
                                         message |-> "post creation failed"])]
                /\ UNCHANGED <<clerk_users, posts>>
    /\ UNCHANGED <<now, max_users_per_run, run, response, invocations,
                   setting_updates, uiVars, pageVars>>

NextAsync ==
    \/ \E gap \in AsyncGaps : AsyncCall(gap)
    \/ \E k \in 1..MaxAsyncInvocations, u \in UserIds : AsyncReadGate(k, u)
    \/ \E k \in 1..MaxAsyncInvocations, createOk \in BOOLEAN,
          publishOk \in BOOLEAN : AsyncWrite(k, createOk, publishOk)

SpecAsync == InitAsync /\ [][NextAsync]_vars

\* ------------------------------------------------ ModalProvider (frontend)
\* A text is a sequence over Chars; trim() drops the white space at both
\* ends.
Chars == {" ", "a"}
Texts == UNION {[1..n -> Chars] : n \in 0..MaxLen}
\* Titles of the confirm dialogs and default texts of the input dialogs the
\* dashboard opens.
ModalTitles == {"Publish to LinkedIn", "Delete post"}
DefaultValues == {<<>>, <<"a">>}

RECURSIVE TrimStart(_)
TrimStart(text) ==
    IF text = <<>> THEN <<>>
    ELSE IF Head(text) = " " THEN TrimStart(Tail(text))
    ELSE text

RECURSIVE TrimEnd(_)
TrimEnd(text) ==
    IF text = <<>> THEN <<>>
    ELSE IF text[Len(text)] = " " THEN TrimEnd(SubSeq(text, 1, Len(text) - 1))
    ELSE text

Trim(text) == TrimEnd(TrimStart(text))

\* The provider's state as one record, so that a handler is a function from
\* the state before it to the state after it.
Ui ==
    [modalState |-> modalState,
     modalResolveRef |-> modalResolveRef,
     modalPromises |-> modalPromises,
     inputModalState |-> inputModalState,
     inputResolveRef |-> inputResolveRef,
     inputPromises |-> inputPromises,
     value |-> value]

SetUi(st) ==
    /\ modalState' = st.modalState
    /\ modalResolveRef' = st.modalResolveRef
    /\ modalPromises' = st.modalPromises
    /\ inputModalState' = st.inputModalState
    /\ inputResolveRef' = st.inputResolveRef
    /\ inputPromises' = st.inputPromises
    /\ value' = st.value

\* A promise counts the calls of its resolve function; only the first one
\* settles it.
PendingPromise(nothing) ==
    [state |-> "pending", result |-> nothing, calls |-> 0]

NoText == [isNull |-> TRUE, text |-> <<>>]

Resolve(promise, result) ==
    IF promise.state = "pending"
    THEN [state |-> "fulfilled", result |-> result, calls |-> promise.calls + 1]
    ELSE [promise EXCEPT !.calls = @ + 1]

showModal(st, title) ==
    [st EXCEPT
       !.modalPromises = Append(@, PendingPromise(FALSE)),
       !.modalResolveRef = Len(st.modalPromises) + 1,
       !.modalState = [isOpen |-> TRUE, title |-> title, onConfirm |-> TRUE]]

closeModal(st) ==
    [st EXCEPT
       !.modalPromises =
           IF st.modalResolveRef # Null
           THEN [@ EXCEPT ![st.modalResolveRef] = Resolve(@, FALSE)]
           ELSE @,
       !.modalResolveRef = Null,
       !.modalState = [@ EXCEPT !.isOpen = FALSE, !.onConfirm = FALSE]]

\* Variant: the ref is left in place after the promise is resolved.
handleModalConfirm_KeepsRef(st) ==
    [st EXCEPT
       !.modalPromises =
           IF st.modalResolveRef # Null
           THEN [@ EXCEPT ![st.modalResolveRef] = Resolve(@, TRUE)]
           ELSE @,
       !.modalState = [@ EXCEPT !.isOpen = FALSE, !.onConfirm = FALSE]]

\* The onConfirm callbacks the dashboard passes do nothing.
handleModalConfirm(st) ==
    [st EXCEPT
       !.modalPromises =
           IF st.modalResolveRef # Null
           THEN [@ EXCEPT ![st.modalResolveRef] = Resolve(@, TRUE)]
           ELSE @,
       !.modalResolveRef = Null,
       !.modalState = [@ EXCEPT !.isOpen = FALSE, !.onConfirm = FALSE]]

\* Modal.handleConfirm: onConfirm(), then onClose().
ModalHandleConfirm(st) == closeModal(handleModalConfirm(st))

\* The effect of InputModal resets the text when isOpen or defaultValue
\* changes while the dialog is open.
showInput(st, defaultValue) ==
    [st EXCEPT
       !.inputPromises = Append(@, PendingPromise(NoText)),
       !.inputResolveRef = Len(st.inputPromises) + 1,
       !.inputModalState = [isOpen |-> TRUE, defaultValue |-> defaultValue],
       !.value = IF \/ ~st.inputModalState.isOpen
                    \/ st.inputModalState.defaultValue # defaultValue
                 THEN defaultValue ELSE @]

closeInputModal(st) ==
    [st EXCEPT
       !.inputPromises =
           IF st.inputResolveRef # Null
           THEN [@ EXCEPT ![st.inputResolveRef] = Resolve(@, NoText)]
           ELSE @,
       !.inputResolveRef = Null,
       !.inputModalState = [@ EXCEPT !.isOpen = FALSE]]

handleInputConfirm(st, text) ==
    [st EXCEPT
       !.inputPromises =
           IF st.inputResolveRef # Null
           THEN [@ EXCEPT ![st.inputResolveRef] =
                     Resolve(@, [isNull |-> FALSE, text |-> text])]
           ELSE @,
       !.inputResolveRef = Null,
       !.inputModalState = [@ EXCEPT !.isOpen = FALSE]]

\* Variant: the text is passed on without the check for blank text.
InputHandleConfirm_NoBlankCheck(st) ==
    closeInputModal(handleInputConfirm(st, Trim(st.value)))

\* InputModal.handleConfirm: with text left after trim(), onConfirm(text)
\* and then onClose(); nothing otherwise.
InputHandleConfirm(st) ==
    IF Trim(st.value) # <<>>
    THEN closeInputModal(handleInputConfirm(st, Trim(st.value)))
    ELSE st

\* ------------------------------------------------------------------ toasts
\* showToast appends a toast under a random id; removeToast filters it out.
\* A toast carries the state of its Toast component: isVisible, the time
\* its auto-dismiss timer has run and the time its fade-out timer has run
\* (Null while that timer is not set), in ticks of TickMs.

MaxToasts == 2

DefaultDurationMs == 3000

FadeMs == 300

\* The unit of time; a timer fires at the first tick at or after its delay.
TickMs == 1000

Ticks(ms) == (ms + TickMs - 1) \div TickMs

ToastIds == 1..MaxToasts

ToastRecord(id, message, type) ==
    [id |-> id, message |-> message, type |-> type, duration |-> Null,
     isVisible |-> TRUE, elapsed |-> 0, fade |-> Null]

ToastIdsShown(ts) == {ts[i].id : i \in 1..Len(ts)}

\* Ids are only compared with each other, so the model takes the least id
\* not on screen as the random one.
FreshToastId(ts) ==
    CHOOSE id \in ToastIds \ ToastIdsShown(ts) :
        \A other \in ToastIds \ ToastIdsShown(ts) : id <= other

showToast(ts, id, message, type) == Append(ts, ToastRecord(id, message, type))

removeToast(ts, id) == SelectSeq(ts, LAMBDA t : t.id # id)

\* The delay of the auto-dismiss timer: the toast's duration, 3000 ms when
\* it has none.
ToastDuration(t) ==
    IF t.duration = Null THEN DefaultDurationMs ELSE t.duration

\* ModalProvider renders again, as it does whenever its modal, input or
\* toast state is set: ToastContainer hands every Toast a new onClose, the
\* effect that depends on it is cleaned up and runs again, and the
\* auto-dismiss timer starts anew.  A toast that is already fading out keeps
\* its fade-out timer, which no cleanup clears.
Rerender(ts) ==
    [i \in 1..Len(ts) |->
        IF ts[i].fade = Null THEN [ts[i] EXCEPT !.elapsed = 0] ELSE ts[i]]

\* What a step that sets the provider's modal or input state does to the
\* pages.
ProviderRendered ==
    /\ toasts' = Rerender(toasts)
    /\ UNCHANGED <<location, auth, view, lastSyncedSnapshot, dashboard,
                   requests, automations, activity>>

\* A page handler calls showModal.
CallShowModal(title) ==
    /\ Len(modalPromises) < MaxModalShows
    /\ SetUi(showModal(Ui, title))
    /\ ProviderRendered
    /\ UNCHANGED cronVars

\* The user presses the confirm button of the confirm dialog.
PressConfirm ==
    /\ modalState.isOpen
    /\ SetUi(ModalHandleConfirm(Ui))
    /\ ProviderRendered
    /\ UNCHANGED cronVars

\* The user presses cancel, the close button or the backdrop.
PressClose ==
    /\ modalState.isOpen
    /\ SetUi(closeModal(Ui))
    /\ ProviderRendered
    /\ UNCHANGED cronVars

NextModal ==
    \/ \E title \in ModalTitles : CallShowModal(title)
    \/ PressConfirm
    \/ PressClose

\* The backend at rest, for the behaviours of the frontend alone.
CronIdle ==
    /\ now = 0
    /\ clerk_users = [u \in UserIds |-> NewUser]
    /\ posts = <<>>
    /\ automation_logs = <<>>
    /\ max_users_per_run = DefaultMaxUsersPerRun
    /\ run = IdleRun
    /\ response = NoResponse
    /\ invocations = 0
    /\ setting_updates = 0
    /\ background = <<>>

InitUi == CronIdle /\ UiInit /\ PagesInit

SpecModal == InitUi /\ [][NextModal]_vars

\* The user sooner or later confirms or closes a confirm dialog that is
\* open.
SpecModalLive ==
    /\ InitUi
    /\ [][NextModal]_vars
    /\ WF_vars(PressConfirm \/ PressClose)

\* A page handler calls showInput.
CallShowInput(defaultValue) ==
    /\ Len(inputPromises) < MaxInputShows
    /\ SetUi(showInput(Ui, defaultValue))
    /\ ProviderRendered
    /\ UNCHANGED cronVars

\* The user edits the text of the input dialog.
TypeText(text) ==
    /\ inputModalState.isOpen
    /\ text # value
    /\ value' = text
    /\ UNCHANGED <<modalState, modalResolveRef, modalPromises,
                   inputModalState, inputResolveRef, inputPromises>>
    /\ UNCHANGED <<cronVars, pageVars>>

\* The user presses the confirm button (enabled when the text is not
\* blank) or the Enter key (at any time).
PressInputConfirm(key) ==
    /\ inputModalState.isOpen
    /\ key = "button" => Trim(value) # <<>>
    /\ SetUi(InputHandleConfirm(Ui))
    /\ ProviderRendered
    /\ UNCHANGED cronVars

\* The user presses cancel, the close button, the backdrop or Escape.
PressInputClose ==
    /\ inputModalState.isOpen
    /\ SetUi(closeInputModal(Ui))
    /\ ProviderRendered
    /\ UNCHANGED cronVars

NextInput ==
    \/ \E defaultValue \in DefaultValues : CallShowInput(defaultValue)
    \/ \E text \in Texts : TypeText(text)
    \/ \E key \in {"button", "enter"} : PressInputConfirm(key)
    \/ PressInputClose

SpecInput == InitUi /\ [][NextInput]_vars

\* ------------------------------------------------------- routing (App.tsx)
\* Paths the browser may be opened at: the three routes and paths that only
\* the wildcard route matches.
Paths ==
    {"/", "/settings", "/auth", "/automations", "/dashboard", "/login",
     "/posts", "/analytics"}
ClerkUsers == {"user_1", "user_2"}

\* What useAuth and useUser may report: isSignedIn is undefined (FALSE here)
\* until useAuth has loaded, user is undefined (NoUser here) until useUser
\* has loaded.
AuthStates ==
    {a \in [isLoaded : BOOLEAN, isUserLoaded : BOOLEAN, isSignedIn : BOOLEAN,
            user : ClerkUsers \cup {NoUser}] :
        /\ ~a.isLoaded => ~a.isSignedIn
        /\ ~a.isUserLoaded => a.user = NoUser}

\* Variant: the check of isSignedIn and user is left out.
ProtectedRoute_NoSignedInCheck(a, children) ==
    IF ~a.isLoaded \/ ~a.isUserLoaded
    THEN [screen |-> "AppShellSkeleton", to |-> ""]
    ELSE [screen |-> children, to |-> ""]

\* What ProtectedRoute returns: the screen it renders and the path it
\* navigates to ("" for none).
ProtectedRoute(a, children) ==
    IF ~a.isLoaded \/ ~a.isUserLoaded
    THEN [screen |-> "AppShellSkeleton", to |-> ""]
    ELSE IF ~a.isSignedIn \/ a.user = NoUser
    THEN [screen |-> "Navigate", to |-> "/auth"]
    ELSE [screen |-> children, to |-> ""]

\* AuthPage renders the sign-in form; its effect navigates to / when
\* isSignedIn.
AuthPage(a) ==
    [screen |-> "AuthPage", to |-> IF a.isSignedIn THEN "/" ELSE ""]

\* <Routes>: the element for a path.
RouteElement(path, a) ==
    IF path = "/" THEN ProtectedRoute(a, "DashboardPage")
    ELSE IF path = "/settings" THEN ProtectedRoute(a, "SettingsPage")
    ELSE IF path = "/auth" THEN AuthPage(a)
    ELSE [screen |-> "Navigate", to |-> "/"]

\* The page on screen is a protected one.
ProtectedScreens == {"DashboardPage", "SettingsPage"}

InitRoute ==
    /\ CronIdle
    /\ UiInit
    /\ location \in Paths
    /\ auth \in AuthStates
    /\ view = "signin"
    /\ lastSyncedSnapshot = NoUser
    /\ dashboard = NoDashboard
    /\ requests = <<>>
    /\ toasts = <<>>
    /\ automations = NoAutomations
    /\ activity = NoActivity

\* The router follows the redirect of the element on screen
\* (navigate(..., { replace: true })); the page it leaves is unmounted.
Redirect ==
    /\ RouteElement(location, auth).to # ""
    /\ location' = RouteElement(location, auth).to
    /\ view' = "signin"
    /\ lastSyncedSnapshot' = NoUser
    /\ UNCHANGED <<auth, dashboard, requests, toasts, automations, activity>>
    /\ UNCHANGED <<cronVars, uiVars>>

\* The user switches between the sign-in and the sign-up form.
SetView(v) ==
    /\ location = "/auth"
    /\ v # view
    /\ view' = v
    /\ UNCHANGED <<location, auth, lastSyncedSnapshot, dashboard, requests,
                   toasts, automations, activity>>
    /\ UNCHANGED <<cronVars, uiVars>>

\* ProtectedRoute's effect: with a user and isSignedIn it sends the user to
\* syncClerkUser once per snapshot.
SyncEffect ==
    /\ location \in {"/", "/settings"}
    /\ auth.user # NoUser
    /\ auth.isSignedIn
    /\ lastSyncedSnapshot # auth.user
    /\ lastSyncedSnapshot' = auth.user
    /\ UNCHANGED <<location, auth, view, dashboard, requests, toasts,
                   automations, activity>>
    /\ UNCHANGED <<cronVars, uiVars>>

\* Clerk reports another authentication state (it has loaded, the user has
\* signed in or out).
ClerkUpdate(a) ==
    /\ a # auth
    /\ auth' = a
    /\ UNCHANGED <<location, view, lastSyncedSnapshot, dashboard, requests, toasts, automations,
                   activity>>
    /\ UNCHANGED <<cronVars, uiVars>>

\* The user opens another path.
UserNavigate(path) ==
    /\ path # location
    /\ location' = path
    /\ view' = "signin"
    /\ lastSyncedSnapshot' = NoUser
    /\ UNCHANGED <<auth, dashboard, requests, toasts, automations, activity>>
    /\ UNCHANGED <<cronVars, uiVars>>

NextRoute ==
    \/ Redirect
    \/ \E v \in {"signin", "signup"} : SetView(v)
    \/ SyncEffect
    \/ \E a \in AuthStates : ClerkUpdate(a)
    \/ \E path \in Paths : UserNavigate(path)

SpecRoute == InitRoute /\ [][NextRoute]_vars

\* Navigation under an authentication state that stays as it is: the
\* router always follows a redirect that is on screen.
NextRouteLive ==
    \/ Redirect
    \/ \E v \in {"signin", "signup"} : SetView(v)
    \/ SyncEffect

SpecRouteLive == InitRoute /\ [][NextRouteLive]_vars /\ WF_vars(Redirect)

\* ------------------------------------------------ Dashboard: the post list
\* DashboardPage keeps the filter of the post library and the list that
\* fetchPosts returned last.  Every load is a request of its own; a response
\* may arrive in any order, and loadPosts writes whatever arrives.

MaxFilterChanges == 2

FilterButtons == {"draft", "scheduled", "published", "failed"}

\* The posts of the signed-in user on the server while the page is open.
Library ==
    {[id |-> 1, status |-> "draft"], [id |-> 2, status |-> "published"],
     [id |-> 3, status |-> "scheduled"]}

\* GET /posts, with ?status= when a status is given.
fetchPosts(status) ==
    IF status = NoFilter THEN Library
    ELSE {p \in Library : p.status = status}

SignedIn ==
    [isLoaded |-> TRUE, isUserLoaded |-> TRUE, isSignedIn |-> TRUE,
     user |-> "user_1"]

FetchRequest(status) ==
    [api |-> "fetchPosts", arg |-> status, state |-> "pending"]

\* loadPosts up to its await: the request leaves.
loadPosts(rs, status) == Append(rs, FetchRequest(status))

InitFetch ==
    /\ CronIdle
    /\ UiInit
    /\ location = "/"
    /\ auth = SignedIn
    /\ view = "signin"
    /\ lastSyncedSnapshot = SignedIn.user
    /\ dashboard = NoDashboard
    /\ requests = <<>>
    /\ toasts = <<>>
    /\ automations = NoAutomations
    /\ activity = NoActivity

\* The first render: the effect with no dependencies and the effect on
\* [filter] both run, and each calls loadPosts.
Mount ==
    /\ ~dashboard.mounted
    /\ dashboard' = [dashboard EXCEPT !.mounted = TRUE]
    /\ requests' = loadPosts(loadPosts(requests, dashboard.filter),
                             dashboard.filter)
    /\ UNCHANGED <<cronVars, uiVars, location, auth, view,
                   lastSyncedSnapshot, toasts, automations, activity>>

\* A click on a filter button that changes the filter; the effect on
\* [filter] runs again.
SelectFilter(f) ==
    /\ dashboard.mounted
    /\ f # dashboard.filter
    /\ Len(requests) < 2 + MaxFilterChanges
    /\ dashboard' = [dashboard EXCEPT !.filter = f]
    /\ requests' = loadPosts(requests, f)
    /\ UNCHANGED <<cronVars, uiVars, location, auth, view,
                   lastSyncedSnapshot, toasts, automations, activity>>

\* loadPosts after its await: a response with success sets the list, an
\* error or a response without success leaves it.
FetchResponded(i, success) ==
    /\ i \in 1..Len(requests)
    /\ requests[i].api = "fetchPosts"
    /\ requests[i].state = "pending"
    /\ requests' = [requests EXCEPT ![i].state =
                        IF success THEN "ok" ELSE "failed"]
    /\ dashboard' =
          IF success
          THEN [dashboard EXCEPT !.posts = fetchPosts(requests[i].arg)]
          ELSE dashboard
    /\ UNCHANGED <<cronVars, uiVars, location, auth, view,
                   lastSyncedSnapshot, toasts, automations, activity>>

NextFetch ==
    \/ Mount
    \/ \E f \in FilterButtons \cup {NoFilter} : SelectFilter(f)
    \/ \E i \in 1..(2 + MaxFilterChanges), success \in BOOLEAN :
          FetchResponded(i, success)

SpecFetch == InitFetch /\ [][NextFetch]_vars


\* ------------------------------------------- Dashboard: scheduling a post
MaxScheduleRequests == 1

NaN == Null

NotADigit == 10

\* Texts the schedule input may hold: empty, times, and texts that are no
\* time.
ScheduleInputs ==
    {<<>>, <<1>>, <<1, 2>>, <<2, 1>>, <<NotADigit>>, <<2, NotADigit>>}

\* Date.now() when the page is opened.
ScheduleNows == {1, 12, 20}

RECURSIVE Decimal(_)
Decimal(s) ==
    IF s = <<>> THEN 0
    ELSE 10 * Decimal(SubSeq(s, 1, Len(s) - 1)) + s[Len(s)]

\* new Date(text).getTime(): the time a text of digits names, NaN for any
\* other text.
DateParse(s) ==
    IF s = <<>> \/ \E i \in 1..Len(s) : s[i] = NotADigit
    THEN NaN
    ELSE Decimal(s)

\* Variant: a time equal to the current time passes.
ScheduleVerdict_AllowsNow(d, t) ==
    IF d.currentPost = NoPost THEN "return"
    ELSE IF d.scheduleFor = <<>> THEN "return"
    ELSE IF DateParse(d.scheduleFor) = NaN THEN "invalid"
    ELSE IF DateParse(d.scheduleFor) < t THEN "past"
    ELSE "send"

\* The guards of handleSchedule, in the order of the code.
ScheduleVerdict(d, t) ==
    IF d.currentPost = NoPost THEN "return"
    ELSE IF d.scheduleFor = <<>> THEN "return"
    ELSE IF DateParse(d.scheduleFor) = NaN THEN "invalid"
    ELSE IF DateParse(d.scheduleFor) <= t THEN "past"
    ELSE "send"

ScheduleRequest(d) ==
    [api |-> "schedulePost",
     arg |-> [id |-> d.currentPost.id,
              scheduled_for |-> DateParse(d.scheduleFor)],
     state |-> "pending", load |-> Null]

PendingSchedules ==
    {i \in 1..Len(requests) :
        requests[i].api = "schedulePost" /\ requests[i].state # "done"}

SentSchedules ==
    {i \in 1..Len(requests) : requests[i].api = "schedulePost"}

InitSchedule ==
    /\ now \in ScheduleNows
    /\ clerk_users = [u \in UserIds |-> NewUser]
    /\ posts = <<>>
    /\ automation_logs = <<>>
    /\ max_users_per_run = DefaultMaxUsersPerRun
    /\ run = IdleRun
    /\ response = NoResponse
    /\ invocations = 0
    /\ setting_updates = 0
    /\ background = <<>>
    /\ UiInit
    /\ location = "/"
    /\ auth = SignedIn
    /\ view = "signin"
    /\ lastSyncedSnapshot = SignedIn.user
    /\ dashboard = [NoDashboard EXCEPT !.mounted = TRUE,
                                       !.posts = fetchPosts(NoFilter)]
    /\ requests = <<>>
    /\ toasts = <<>>
    /\ automations = NoAutomations
    /\ activity = NoActivity

\* The edit button of a post of the library that is not published.
SelectPost(p) ==
    /\ p \in dashboard.posts
    /\ p.status # "published"
    /\ dashboard' = [dashboard EXCEPT !.currentPost = p]
    /\ UNCHANGED <<cronVars, uiVars, location, auth, view,
                   lastSyncedSnapshot, requests, toasts, automations,
                   activity>>

\* The datetime input's onChange.
TypeSchedule(text) ==
    /\ dashboard' = [dashboard EXCEPT !.scheduleFor = text]
    /\ UNCHANGED <<cronVars, uiVars, location, auth, view,
                   lastSyncedSnapshot, requests, toasts, automations,
                   activity>>

\* handleSchedule up to its await.
HandleSchedule(id) ==
    /\ ToastIdsShown(toasts) # ToastIds
    /\ id = FreshToastId(toasts)
    /\ Len(toasts) + Cardinality(PendingSchedules) < MaxToasts
    /\ LET verdict == ScheduleVerdict(dashboard, now) IN
         /\ toasts' =
               CASE verdict = "invalid" ->
                      showToast(toasts, id, "Invalid schedule time.", "error")
                 [] verdict = "past" ->
                      showToast(toasts, id,
                                "Schedule time must be in the future.",
                                "warning")
                 [] OTHER -> toasts
         /\ requests' =
               IF verdict = "send"
                  /\ Cardinality(SentSchedules) < MaxScheduleRequests
               THEN Append(requests, ScheduleRequest(dashboard))
               ELSE requests
    /\ UNCHANGED <<cronVars, uiVars, location, auth, view,
                   lastSyncedSnapshot, dashboard, automations, activity>>

\* handleSchedule after schedulePost answered: on success a toast and a
\* reload of the list, on an error the error's message as a toast, on an
\* answer without success nothing.
ScheduleResponded(i, outcome, id) ==
    /\ i \in 1..Len(requests)
    /\ requests[i].api = "schedulePost"
    /\ requests[i].state = "pending"
    /\ ToastIdsShown(toasts) # ToastIds
    /\ id = FreshToastId(toasts)
    /\ CASE outcome = "success" ->
              /\ toasts' = showToast(toasts, id, "Post scheduled.", "success")
              /\ requests' =
                    loadPosts([requests EXCEPT ![i].state = "loading",
                                               ![i].load = Len(requests) + 1],
                              dashboard.filter)
         [] outcome = "error" ->
              /\ toasts' = showToast(toasts, id, "Request failed", "error")
              /\ requests' = [requests EXCEPT ![i].state = "done"]
         [] OTHER ->
              /\ toasts' = toasts
              /\ requests' = [requests EXCEPT ![i].state = "done"]
    /\ UNCHANGED <<cronVars, uiVars, location, auth, view,
                   lastSyncedSnapshot, dashboard, automations, activity>>

\* handleSchedule after its loadPosts returned: setCurrentPost(result.post).
ScheduleFinished(i) ==
    /\ i \in 1..Len(requests)
    /\ requests[i].api = "schedulePost"
    /\ requests[i].state = "loading"
    /\ requests[requests[i].load].state # "pending"
    /\ requests' = [requests EXCEPT ![i].state = "done"]
    /\ dashboard' = [dashboard EXCEPT !.currentPost =
                        [id |-> requests[i].arg.id, status |-> "scheduled"]]
    /\ UNCHANGED <<cronVars, uiVars, location, auth, view,
                   lastSyncedSnapshot, toasts, automations, activity>>

NextSchedule ==
    \/ \E p \in Library : SelectPost(p)
    \/ \E text \in ScheduleInputs : TypeSchedule(text)
    \/ \E id \in ToastIds : HandleSchedule(id)
    \/ \E i \in 1..(2 * MaxScheduleRequests),
          outcome \in {"success", "error", "refused"}, id \in ToastIds :
          ScheduleResponded(i, outcome, id)
    \/ \E i \in 1..(2 * MaxScheduleRequests), success \in BOOLEAN :
          FetchResponded(i, success)
    \/ \E i \in 1..(2 * MaxScheduleRequests) : ScheduleFinished(i)

SpecSchedule == InitSchedule /\ [][NextSchedule]_vars


\* -------------------------------------------------------- Automations page
\* The page keeps the setting the server returned last and two drafts; the
\* toggle and the save button each send one PATCH /me/automation.  The row
\* of the signed-in user is the first of clerk_users, its occupation a text
\* of characters here so that trimming is computed.

MaxAutomationRequests == 2

PageUser == 1

OccupationInputs == {<<>>, <<" ">>, <<"a">>, <<" ", "a">>}

\* GET /me/automation: the fields of the row the page reads.
AutomationSetting(row) ==
    [enabled |-> row.enabled, occupation |-> row.occupation,
     frequency |-> row.frequency]

\* JavaScript's a || b on strings: b when a is empty.
OrElse(a, b) == IF a # <<>> THEN a ELSE b

AutomationRequest(payload) ==
    [api |-> "setAutomationSetting", arg |-> payload, state |-> "pending"]

SentAutomationRequests ==
    {i \in 1..Len(requests) : requests[i].api = "setAutomationSetting"}

\* The page after loadSetting, for every row the server may hold.
InitAutomations ==
    /\ now = 0
    /\ \E enabled \in BOOLEAN, occupation \in {<<>>, <<"a">>},
          frequency \in Frequencies :
          /\ clerk_users =
                [u \in UserIds |->
                    IF u = PageUser
                    THEN [NewUser EXCEPT !.enabled = enabled,
                                         !.occupation = occupation,
                                         !.frequency = frequency]
                    ELSE NewUser]
          /\ automations =
                [setting |-> [enabled |-> enabled, occupation |-> occupation,
                              frequency |-> frequency],
                 occupationDraft |-> occupation,
                 frequencyDraft |-> frequency]
    /\ posts = <<>>
    /\ automation_logs = <<>>
    /\ max_users_per_run = DefaultMaxUsersPerRun
    /\ run = IdleRun
    /\ response = NoResponse
    /\ invocations = 0
    /\ setting_updates = 0
    /\ background = <<>>
    /\ UiInit
    /\ location = "/automations"
    /\ auth = SignedIn
    /\ view = "signin"
    /\ lastSyncedSnapshot = SignedIn.user
    /\ dashboard = NoDashboard
    /\ requests = <<>>
    /\ toasts = <<>>
    /\ activity = NoActivity

\* The profession input's onChange.
TypeOccupation(text) ==
    /\ automations' = [automations EXCEPT !.occupationDraft = text]
    /\ UNCHANGED <<cronVars, uiVars, location, auth, view,
                   lastSyncedSnapshot, dashboard, requests, toasts, activity>>

\* The frequency select's onChange.
SelectFrequency(f) ==
    /\ automations' = [automations EXCEPT !.frequencyDraft = f]
    /\ UNCHANGED <<cronVars, uiVars, location, auth, view,
                   lastSyncedSnapshot, dashboard, requests, toasts, activity>>

\* The guard of handleToggle: enabling is refused when the draft, or the
\* saved occupation if the draft is empty, trims to nothing.
ToggleRefused(a, enabled) ==
    enabled /\ Trim(OrElse(a.occupationDraft, a.setting.occupation)) = <<>>

\* handleToggle up to its await; the switch passes the opposite of the
\* setting shown.
HandleToggle(token) ==
    LET enabled == ~automations.setting.enabled IN
    /\ ToastIdsShown(toasts) # ToastIds
    /\ Len(toasts) + Cardinality({i \in SentAutomationRequests :
                                     requests[i].state = "pending"})
          < MaxToasts
    /\ IF ToggleRefused(automations, enabled)
       THEN /\ toasts' = showToast(toasts, FreshToastId(toasts),
                   "Set your profession below before enabling automation.",
                   "warning")
            /\ requests' = requests
       ELSE IF ~token
       THEN /\ toasts' = showToast(toasts, FreshToastId(toasts),
                                   "Not authenticated.", "error")
            /\ requests' = requests
       ELSE /\ Cardinality(SentAutomationRequests) < MaxAutomationRequests
            /\ requests' =
                  Append(requests, AutomationRequest([enabled |-> enabled]))
            /\ toasts' = toasts
    /\ UNCHANGED <<cronVars, uiVars, location, auth, view,
                   lastSyncedSnapshot, dashboard, automations, activity>>

\* handleSaveSettings up to its await: a draft that trims to nothing is left
\* out of the payload.
HandleSaveSettings(token) ==
    /\ ToastIdsShown(toasts) # ToastIds
    /\ Len(toasts) + Cardinality({i \in SentAutomationRequests :
                                     requests[i].state = "pending"})
          < MaxToasts
    /\ IF ~token
       THEN /\ toasts' = showToast(toasts, FreshToastId(toasts),
                                   "Not authenticated.", "error")
            /\ requests' = requests
       ELSE /\ Cardinality(SentAutomationRequests) < MaxAutomationRequests
            /\ requests' =
                  Append(requests, AutomationRequest(
                     IF Trim(automations.occupationDraft) = <<>>
                     THEN [frequency |-> automations.frequencyDraft]
                     ELSE [occupation |-> Trim(automations.occupationDraft),
                           frequency |-> automations.frequencyDraft]))
            /\ toasts' = toasts
    /\ UNCHANGED <<cronVars, uiVars, location, auth, view,
                   lastSyncedSnapshot, dashboard, automations, activity>>

\* The answer to a PATCH: the server merges the payload into the row and
\* returns it, the page keeps it as its setting and shows a toast; an error
\* leaves both and shows its message.
AutomationResponded(i, ok) ==
    /\ i \in SentAutomationRequests
    /\ requests[i].state = "pending"
    /\ ToastIdsShown(toasts) # ToastIds
    /\ requests' = [requests EXCEPT ![i].state = IF ok THEN "ok" ELSE "failed"]
    /\ IF ok
       THEN /\ clerk_users' =
                  [clerk_users EXCEPT ![PageUser] = Merge(@, requests[i].arg)]
            /\ automations' =
                  [automations EXCEPT !.setting =
                      AutomationSetting(Merge(clerk_users[PageUser],
                                              requests[i].arg))]
            /\ toasts' =
                  showToast(toasts, FreshToastId(toasts),
                     IF "enabled" \notin DOMAIN requests[i].arg
                     THEN "Settings saved."
                     ELSE IF requests[i].arg.enabled
                     THEN "Automation enabled."
                     ELSE "Automation disabled.",
                     "success")
       ELSE /\ toasts' = showToast(toasts, FreshToastId(toasts),
                                   "Request failed", "error")
            /\ UNCHANGED <<clerk_users, automations>>
    /\ UNCHANGED <<now, posts, automation_logs, max_users_per_run, run,
                   response, invocations, setting_updates, background,
                   uiVars, location, auth, view, lastSyncedSnapshot,
                   dashboard, activity>>

\* A toast leaves the list, by its timer or by its close button.
ToastGone(id) ==
    /\ id \in ToastIdsShown(toasts)
    /\ toasts' = removeToast(toasts, id)
    /\ UNCHANGED <<cronVars, uiVars, location, auth, view,
                   lastSyncedSnapshot, dashboard, requests, automations,
                   activity>>

NextAutomations ==
    \/ \E text \in OccupationInputs : TypeOccupation(text)
    \/ \E f \in Frequencies : SelectFrequency(f)
    \/ \E token \in BOOLEAN : HandleToggle(token)
    \/ \E token \in BOOLEAN : HandleSaveSettings(token)
    \/ \E i \in 1..MaxAutomationRequests, ok \in BOOLEAN :
          AutomationResponded(i, ok)
    \/ \E id \in ToastIds : ToastGone(id)

SpecAutomations == InitAutomations /\ [][NextAutomations]_vars


\* ------------------------------------------------------ toasts: lifecycle
ToastMessages ==
    {<<"Post scheduled.", "success">>, <<"Invalid schedule time.", "error">>}

\* A handler calls showToast; setToasts renders the provider.
ShowToast(message, type) ==
    /\ ToastIdsShown(toasts) # ToastIds
    /\ toasts' = Rerender(showToast(toasts, FreshToastId(toasts),
                                    message, type))
    /\ UNCHANGED <<cronVars, uiVars, location, auth, view,
                   lastSyncedSnapshot, dashboard, requests, automations,
                   activity>>

TimerDue(t) ==
    \/ t.elapsed # Null /\ t.elapsed >= Ticks(ToastDuration(t))
    \/ t.fade # Null /\ t.fade >= Ticks(FadeMs)

\* Time passes for every timer that is set; a timer that is due fires
\* before time passes on.
Tick ==
    /\ toasts # <<>>
    /\ \A i \in 1..Len(toasts) : ~TimerDue(toasts[i])
    /\ toasts' =
          [i \in 1..Len(toasts) |->
              [toasts[i] EXCEPT
                 !.elapsed = IF @ = Null THEN Null ELSE @ + 1,
                 !.fade = IF @ = Null THEN Null ELSE @ + 1]]
    /\ UNCHANGED <<cronVars, uiVars, location, auth, view,
                   lastSyncedSnapshot, dashboard, requests, automations,
                   activity>>

\* The auto-dismiss timer fires: the toast fades and the fade-out timer is
\* set.
TimerFired(id) ==
    /\ \E i \in 1..Len(toasts) :
          /\ toasts[i].id = id
          /\ toasts[i].elapsed # Null
          /\ toasts[i].elapsed >= Ticks(ToastDuration(toasts[i]))
          /\ toasts' = [toasts EXCEPT ![i].isVisible = FALSE,
                                      ![i].elapsed = Null,
                                      ![i].fade = IF @ = Null THEN 0 ELSE @]
    /\ UNCHANGED <<cronVars, uiVars, location, auth, view,
                   lastSyncedSnapshot, dashboard, requests, automations,
                   activity>>

\* The user presses the close button of a toast: it fades and the fade-out
\* timer is set.
CloseClick(id) ==
    /\ \E i \in 1..Len(toasts) :
          /\ toasts[i].id = id
          /\ toasts[i].fade = Null
          /\ toasts' = [toasts EXCEPT ![i].isVisible = FALSE,
                                      ![i].elapsed = Null,
                                      ![i].fade = 0]
    /\ UNCHANGED <<cronVars, uiVars, location, auth, view,
                   lastSyncedSnapshot, dashboard, requests, automations,
                   activity>>

\* The fade-out timer fires: onClose calls removeToast, and setToasts
\* renders the provider.
FadeDone(id) ==
    /\ \E i \in 1..Len(toasts) :
          /\ toasts[i].id = id
          /\ toasts[i].fade # Null
          /\ toasts[i].fade >= Ticks(FadeMs)
    /\ toasts' = Rerender(removeToast(toasts, id))
    /\ UNCHANGED <<cronVars, uiVars, location, auth, view,
                   lastSyncedSnapshot, dashboard, requests, automations,
                   activity>>

NextToast ==
    \/ \E m \in ToastMessages : ShowToast(m[1], m[2])
    \/ Tick
    \/ \E id \in ToastIds : TimerFired(id)
    \/ \E id \in ToastIds : CloseClick(id)
    \/ \E id \in ToastIds : FadeDone(id)
    \/ \E title \in ModalTitles : CallShowModal(title)
    \/ PressConfirm
    \/ PressClose

\* Time passes and timers that are due fire; what the user and the pages do
\* is up to them.
SpecToast ==
    /\ InitUi
    /\ [][NextToast]_vars
    /\ WF_vars(Tick)
    /\ \A id \in ToastIds : WF_vars(TimerFired(id)) /\ WF_vars(FadeDone(id))


\* ------------------------------------------- Dashboard: the activity chart
\* activityData buckets the posts of the last 14 days.  Instants are hours
\* since the epoch in UTC; a calendar day is the number of a day; the
\* browser's time zone is its offset from UTC in hours, with at most one
\* change of the offset (daylight saving time) at 02:00 local time.

MaxPosts == 2

HoursPerDay == 24

Days == 14

ActivityNows == {481, 492, 503}

Zones ==
    {[base |-> b, shift |-> 0, at |-> Null] : b \in {-5, 0, 1, 3}}
    \cup {[base |-> b, shift |-> sh, at |-> HoursPerDay * d + 2 - b] :
             b \in {-5, 0, 1}, sh \in {-1, 1}, d \in {10, 15}}

CreatedTimes == {156, 168, 191, 337, 479, 480, 500, 516}

\* created_at of a post: absent, a text that is no date, or an instant.
CreatedInputs ==
    {[kind |-> "missing", t |-> 0], [kind |-> "invalid", t |-> 0]}
    \cup {[kind |-> "time", t |-> t] : t \in CreatedTimes}

\* Hours the local clock is ahead of UTC at an instant.
OffsetAt(zone, t) ==
    IF zone.at # Null /\ t >= zone.at THEN zone.base + zone.shift
    ELSE zone.base

\* getFullYear / getMonth / getDate: the calendar day of an instant in the
\* browser's zone.
LocalDay(zone, t) == (t + OffsetAt(zone, t)) \div HoursPerDay

\* new Date(year, month, date) and setHours(0, 0, 0, 0): the instant of
\* 00:00 local time of a calendar day.
LocalMidnight(zone, day) ==
    LET early == HoursPerDay * day - zone.base IN
    IF OffsetAt(zone, early) = zone.base THEN early
    ELSE HoursPerDay * day - (zone.base + zone.shift)

\* toISOString().slice(0, 10): the calendar day of an instant in UTC.
IsoDate(t) == t \div HoursPerDay

\* The key of a calendar day: the UTC date of its local midnight.
DayKey(zone, day) == IsoDate(LocalMidnight(zone, day))

\* The keys of a Map in insertion order: a key set again keeps its place.
RECURSIVE MapKeys(_)
MapKeys(keys) ==
    IF keys = <<>> THEN <<>>
    ELSE LET before == MapKeys(SubSeq(keys, 1, Len(keys) - 1))
             last == keys[Len(keys)]
         IN IF \E i \in 1..Len(before) : before[i] = last
            THEN before
            ELSE Append(before, last)

\* The posts that pass the checks on created_at.
Dated(created) ==
    {i \in 1..Len(created) : created[i].kind = "time"}

activityData(a) ==
    LET start == LocalMidnight(a.zone, LocalDay(a.zone, a.now) - (Days - 1))
        startDay == LocalDay(a.zone, start)
        keys == MapKeys([i \in 1..Days |-> DayKey(a.zone, startDay + i - 1)])
        createdKey(i) == DayKey(a.zone, LocalDay(a.zone, a.created[i].t))
    IN [k \in 1..Len(keys) |->
          [day |-> keys[k],
           count |-> Cardinality({i \in Dated(a.created) :
                                     createdKey(i) = keys[k]})]]

InitActivity ==
    /\ CronIdle
    /\ UiInit
    /\ location = "/"
    /\ auth = SignedIn
    /\ view = "signin"
    /\ lastSyncedSnapshot = SignedIn.user
    /\ dashboard = [NoDashboard EXCEPT !.mounted = TRUE]
    /\ requests = <<>>
    /\ toasts = <<>>
    /\ automations = NoAutomations
    /\ \E t \in ActivityNows, zone \in Zones,
          created \in UNION {[1..n -> CreatedInputs] : n \in 0..MaxPosts} :
          activity = [now |-> t, zone |-> zone, created |-> created,
                      data |-> <<>>, computed |-> FALSE]

\* The memo runs for the posts the page holds.
ComputeActivity ==
    /\ ~activity.computed
    /\ activity' = [activity EXCEPT !.data = activityData(activity),
                                    !.computed = TRUE]
    /\ UNCHANGED <<cronVars, uiVars, location, auth, view,
                   lastSyncedSnapshot, dashboard, requests, toasts,
                   automations>>

NextActivity == ComputeActivity

SpecActivity == InitActivity /\ [][NextActivity]_vars


\* ================================================================ claims

\* C1: the cadence gate lets a user through exactly when last_auto_run_at
\* is null or now - last_auto_run_at is strictly greater than 23 hours
\* (daily) or 7 days (weekly), and skips the user otherwise; daily +22h and
\* weekly +6 days are skips, daily +24h and weekly +8 days are eligible, and
\* a difference equal to the threshold is a skip.
C1_GateContract ==
    /\ ~Eligible("daily", 100, 122) /\ Eligible("daily", 100, 124)
    /\ ~Eligible("weekly", 100, 100 + 6 * 24) /\ Eligible("weekly", 100, 100 + 8 * 24)
    /\ ~Eligible("daily", 100, 123) /\ ~Eligible("weekly", 100, 100 + 7 * 24)
    /\ [][\A u \in UserIds :
            (run.active /\ u \in run.pending /\ u \notin run'.pending) =>
                LET last == clerk_users[u].last_auto_run_at
                    threshold == IF clerk_users[u].frequency = "daily"
                                 THEN 23 ELSE 7 * 24
                    expected == last = Null \/ run.at - last > threshold
                IN  /\ (u \in run'.attempted) <=> expected
                    /\ (u \in run'.skipped) <=> ~expected]_vars

\* A daily user is skipped exactly 23 hours after the last run.
C1_Witness ==
    \E u \in run.skipped :
        /\ clerk_users[u].frequency = "daily"
        /\ clerk_users[u].last_auto_run_at # Null
        /\ run.at - clerk_users[u].last_auto_run_at = 23

C3_GateWrittenOnlyOnSuccess ==
    [][\A u \in UserIds :
        clerk_users'[u].last_auto_run_at # clerk_users[u].last_auto_run_at =>
            LET n == Len(automation_logs')
            IN  /\ n = Len(automation_logs) + 1
                /\ automation_logs'[n].clerk_user_id = u
                /\ automation_logs'[n].status = "success"
                /\ automation_logs'[n].run_at = clerk_users'[u].last_auto_run_at
                /\ clerk_users'[u].last_auto_run_at = run.at
                /\ u \in run'.attempted \ run.attempted]_vars

\* One user's gate was written by a successful run of this invocation while
\* another user, whose run failed, still has none, and settings have been
\* updated.
C3_Witness ==
    \E u, v \in UserIds :
        /\ u # v
        /\ run.at > 0
        /\ clerk_users[u].last_auto_run_at = run.at
        /\ clerk_users[v].last_auto_run_at = Null
        /\ \E i \in 1..Len(automation_logs) :
              /\ automation_logs[i].clerk_user_id = v
              /\ automation_logs[i].status = "failed"
        /\ setting_updates >= 1

\* C4: when post creation fails for a user, exactly one log row with status
\* failed is added for that user, last_auto_run_at keeps its value, and a
\* user the gate let through stays eligible at every later time.
C4_FailedRunKeepsGate ==
    [][\A u \in UserIds :
        (u \in run'.attempted \ run.attempted /\ posts' = posts) =>
            /\ Len(automation_logs') = Len(automation_logs) + 1
            /\ automation_logs'[Len(automation_logs')].clerk_user_id = u
            /\ automation_logs'[Len(automation_logs')].status = "failed"
            /\ automation_logs'[Len(automation_logs')].run_at = run.at
            /\ clerk_users'[u] = clerk_users[u]
            /\ \A gap \in {0} \cup TriggerGaps \cup GateGaps :
                  LET last == clerk_users'[u].last_auto_run_at
                      threshold == IF clerk_users'[u].frequency = "daily"
                                   THEN 23 ELSE 7 * 24
                  IN  last = Null \/ (run.at + gap) - last > threshold]_vars

\* A user whose run failed was attempted again by a later invocation, and
\* that run succeeded.
C4_Witness ==
    \E i, j \in 1..Len(automation_logs) :
        /\ i < j
        /\ automation_logs[i].clerk_user_id = automation_logs[j].clerk_user_id
        /\ automation_logs[i].status = "failed"
        /\ automation_logs[j].status = "success"
        /\ automation_logs[i].run_at < automation_logs[j].run_at

\* C5: with last_auto_run_at null the gate lets the user through at every
\* time and for both frequencies; a user without a successful run on record
\* has a null last_auto_run_at and is never skipped.
C5_NeverRunAlwaysEligible ==
    /\ \A f \in Frequencies, t \in 0..(8 * 24) : Eligible(f, Null, t)
    /\ \A u \in UserIds :
          (\A i \in 1..Len(automation_logs) :
               ~(/\ automation_logs[i].clerk_user_id = u
                 /\ automation_logs[i].status = "success")) =>
              /\ clerk_users[u].last_auto_run_at = Null
              /\ u \notin run.skipped

\* A weekly user has failed twice, in two invocations, and never succeeded.
C5_Witness ==
    \E u \in UserIds :
        /\ clerk_users[u].frequency = "weekly"
        /\ clerk_users[u].last_auto_run_at = Null
        /\ \E i, j \in 1..Len(automation_logs) :
              /\ i < j
              /\ automation_logs[i].clerk_user_id = u
              /\ automation_logs[j].clerk_user_id = u
              /\ automation_logs[i].status = "failed"
              /\ automation_logs[j].status = "failed"
              /\ automation_logs[i].run_at < automation_logs[j].run_at

\* C6: no invocation attempts an automation run for more users than the
\* configured cap, however many enabled users are eligible.
C6_CapPerInvocation ==
    /\ Cardinality(run.attempted) <= max_users_per_run
    /\ response.users_processed <= max_users_per_run
    /\ invocations > 0 =>
          Cardinality({i \in 1..Len(automation_logs) :
                          automation_logs[i].run_at = run.at}) <= max_users_per_run

\* An invocation with the default cap has ended after one attempt although
\* another enabled user, eligible under either frequency, was waiting.
C6_Witness ==
    /\ max_users_per_run = DefaultMaxUsersPerRun
    /\ ~run.active
    /\ response.users_processed = 1
    /\ \E u \in run.pending :
          /\ clerk_users[u].enabled
          /\ \/ clerk_users[u].last_auto_run_at = Null
             \/ run.at - clerk_users[u].last_auto_run_at > 7 * 24

\* C7: under a scheduler that calls forever, every user that is enabled
\* and eligible is eventually attempted by some invocation.
C7_EventualCoverage ==
    \A u \in UserIds :
        (/\ clerk_users[u].enabled
         /\ Eligible(clerk_users[u].frequency,
                     clerk_users[u].last_auto_run_at, now))
            ~> (u \in run.attempted)

\* C8: a failure while processing one user adds an entry to the errors list
\* and leaves the invocation as it would be had that user succeeded: the
\* same users remain to be scanned, the same count goes against the cap and
\* the other users' settings and posts are the same; an invocation ends only
\* when no user is left to scan or the cap is reached.
C8_FailureIsolated ==
    /\ [](\A u \in run.pending :
            LET failed == Attempt(u, FALSE, FALSE)
                ok == Attempt(u, TRUE, TRUE)
            IN  /\ failed.run.errors =
                       Append(run.errors, [user |-> u,
                                           message |-> "post creation failed"])
                /\ ok.run.errors = run.errors
                /\ failed.run.active = run.active
                /\ failed.run.pending = run.pending \ {u}
                /\ failed.run.pending = ok.run.pending
                /\ failed.run.attempted = ok.run.attempted
                /\ \A v \in UserIds \ {u} :
                      /\ failed.clerk_users[v] = ok.clerk_users[v]
                      /\ SelectSeq(failed.posts, LAMBDA p : p.clerk_user_id = v) =
                         SelectSeq(ok.posts, LAMBDA p : p.clerk_user_id = v))
    /\ [][(run.active /\ ~run'.active) =>
             (run.pending = {} \/
              Cardinality(run.attempted) >= max_users_per_run)]_vars

\* In one invocation a user's run failed and another user was processed
\* successfully after it.
C8_Witness ==
    /\ Len(run.errors) = 1
    /\ \E i, j \in 1..Len(automation_logs) :
          /\ i < j
          /\ automation_logs[i].run_at = run.at
          /\ automation_logs[j].run_at = run.at
          /\ automation_logs[i].status = "failed"
          /\ automation_logs[i].clerk_user_id = run.errors[1].user
          /\ automation_logs[j].status = "success"
          /\ automation_logs[j].clerk_user_id # run.errors[1].user

\* C9: for a user with auto_publish on, a run whose draft creation succeeds
\* and whose publishing fails adds a post with status draft, logs the run
\* as success and adds nothing to the errors list; posts are never removed
\* or changed afterwards.
C9_PublishFailureKeepsDraft ==
    /\ [](\A u \in run.pending :
            clerk_users[u].auto_publish =>
                LET after == Attempt(u, TRUE, FALSE)
                    n == Len(after.posts)
                    m == Len(after.automation_logs)
                IN  /\ n = Len(posts) + 1
                    /\ after.posts[n].clerk_user_id = u
                    /\ after.posts[n].status = "draft"
                    /\ m = Len(automation_logs) + 1
                    /\ after.automation_logs[m].clerk_user_id = u
                    /\ after.automation_logs[m].status = "success"
                    /\ after.run.errors = run.errors
                    /\ after.run.active = run.active)
    /\ [][SubSeq(posts', 1, Len(posts)) = posts]_vars

\* A post whose publishing was attempted and failed is on record as a
\* draft, its run is logged as success and the invocation has ended without
\* errors.
C9_Witness ==
    /\ ~run.active
    /\ response.errors = <<>>
    /\ \E i \in 1..Len(posts), j \in 1..Len(automation_logs) :
          /\ posts[i].publish_attempts = 1
          /\ posts[i].status = "draft"
          /\ automation_logs[j].clerk_user_id = posts[i].clerk_user_id
          /\ automation_logs[j].run_at = posts[i].created_at
          /\ automation_logs[j].status = "success"

\* C10: a run that created the draft and failed to publish it sets
\* last_auto_run_at to the run's timestamp, so the gate rejects the user at
\* every time up to one cadence window later.
C10_PublishFailureAdvancesGate ==
    [][\A u \in UserIds :
        LET n == Len(posts')
        IN  (/\ n = Len(posts) + 1
             /\ posts'[n].clerk_user_id = u
             /\ posts'[n].publish_attempts = 1
             /\ posts'[n].status # "published") =>
                /\ clerk_users'[u].last_auto_run_at = run.at
                /\ \A gap \in 0..(7 * 24) :
                      gap <= (IF clerk_users'[u].frequency = "daily"
                              THEN 23 ELSE 7 * 24) =>
                          ~Eligible(clerk_users'[u].frequency,
                                    clerk_users'[u].last_auto_run_at,
                                    run.at + gap)]_vars

\* A user whose last run left an unpublished draft is skipped by the gate
\* at a later invocation.
C10_Witness ==
    \E u \in run.skipped :
        \E i \in 1..Len(posts) :
            /\ posts[i].clerk_user_id = u
            /\ posts[i].publish_attempts = 1
            /\ posts[i].status = "draft"
            /\ posts[i].created_at = clerk_users[u].last_auto_run_at
            /\ posts[i].created_at < run.at

\* C14: an invocation scans exactly the users whose automation is enabled
\* when it starts, and the cron job creates a post, adds a log entry or
\* changes last_auto_run_at only for a user of that scan; a user that is
\* not enabled at the invocation gets none of the three.
C14_EnabledUsersOnly ==
    /\ [][(~run.active /\ run'.active) =>
             run'.pending = {u \in UserIds : clerk_users[u].enabled}]_vars
    /\ [][\A u \in UserIds :
            (\/ SelectSeq(posts', LAMBDA p : p.clerk_user_id = u) #
                    SelectSeq(posts, LAMBDA p : p.clerk_user_id = u)
             \/ SelectSeq(automation_logs', LAMBDA l : l.clerk_user_id = u) #
                    SelectSeq(automation_logs, LAMBDA l : l.clerk_user_id = u)
             \/ clerk_users'[u].last_auto_run_at #
                    clerk_users[u].last_auto_run_at) =>
                (run.active /\ u \in run.pending)]_vars

\* An invocation has ended with a run for one user and without touching a
\* user that has automation switched off, although that user's last run is
\* more than a day back.
C14_Witness ==
    /\ ~run.active
    /\ invocations > 0
    /\ run.attempted # {}
    /\ \E u \in UserIds :
          /\ ~clerk_users[u].enabled
          /\ u \notin run.pending \cup run.attempted \cup run.skipped
          /\ clerk_users[u].last_auto_run_at # Null
          /\ run.at - clerk_users[u].last_auto_run_at > 23
          /\ Len(SelectSeq(automation_logs,
                           LAMBDA l : l.clerk_user_id = u)) = 1

\* C15: the post a successful automation run creates has status draft when
\* the user's auto_publish is off and status published when auto_publish is
\* on and publishing succeeds; no post is published for a user whose
\* auto_publish is off, and no publish is attempted for such a user.
C15_PostStatusFollowsSetting ==
    /\ [](\A u \in run.pending :
            LET after == Attempt(u, TRUE, TRUE)
                post == after.posts[Len(after.posts)]
            IN  /\ Len(after.posts) = Len(posts) + 1
                /\ post.clerk_user_id = u
                /\ post.status = (IF clerk_users[u].auto_publish
                                  THEN "published" ELSE "draft"))
    /\ [][\A u \in UserIds :
            LET n == Len(posts')
            IN  (n = Len(posts) + 1 /\ posts'[n].clerk_user_id = u) =>
                    IF clerk_users[u].auto_publish
                    THEN posts'[n].status \in {"published", "draft"}
                    ELSE /\ posts'[n].status = "draft"
                         /\ posts'[n].publish_attempts = 0]_vars

\* One invocation has left a published post for a user with auto_publish
\* on and a draft, never sent to LinkedIn, for a user with auto_publish off.
C15_Witness ==
    \E i, j \in 1..Len(posts) :
        /\ posts[i].created_at = run.at
        /\ posts[j].created_at = run.at
        /\ run.at > 0
        /\ posts[i].status = "published"
        /\ clerk_users[posts[i].clerk_user_id].auto_publish
        /\ posts[j].status = "draft"
        /\ posts[j].publish_attempts = 0
        /\ ~clerk_users[posts[j].clerk_user_id].auto_publish

\* C16: the automation log only grows, by one entry at a time and at its
\* end; an entry is added exactly in the step that attempts a run for a
\* user, it is that user's, its status is success, partial or failed, and a
\* user the gate skips adds none.
C16_LogAppendOnly ==
    /\ [][\/ automation_logs' = automation_logs
          \/ /\ Len(automation_logs') = Len(automation_logs) + 1
             /\ SubSeq(automation_logs', 1, Len(automation_logs)) =
                    automation_logs
             /\ automation_logs'[Len(automation_logs')].status \in
                    {"success", "partial", "failed"}]_vars
    /\ [][\A u \in UserIds :
            (run.active /\ u \in run'.attempted \ run.attempted) <=>
                (/\ Len(automation_logs') = Len(automation_logs) + 1
                 /\ automation_logs'[Len(automation_logs')].clerk_user_id = u
                 /\ automation_logs'[Len(automation_logs')].run_at = run.at)]_vars
    /\ [][\A u \in UserIds :
            (run.active /\ u \in run'.skipped \ run.skipped) =>
                automation_logs' = automation_logs]_vars

\* In one invocation the gate skipped one user and the run of another
\* failed: the log holds the earlier entry and one new entry, status failed.
C16_Witness ==
    /\ run.skipped # {}
    /\ run.at > 0
    /\ Len(automation_logs) = 2
    /\ automation_logs[1].run_at = 0
    /\ automation_logs[1].clerk_user_id \in run.skipped
    /\ automation_logs[2].run_at = run.at
    /\ automation_logs[2].status = "failed"
    /\ automation_logs[2].clerk_user_id \in run.attempted

\* C11: for a daily user no two successful automation runs fall within the
\* same calendar day, whatever the trigger times.
C11_OneRunPerCalendarDay ==
    \A i, j \in 1..Len(automation_logs) :
        (/\ i < j
         /\ automation_logs[i].clerk_user_id = automation_logs[j].clerk_user_id
         /\ clerk_users[automation_logs[i].clerk_user_id].frequency = "daily"
         /\ automation_logs[i].status = "success"
         /\ automation_logs[j].status = "success") =>
            automation_logs[i].run_at \div MinutesPerDay #
                automation_logs[j].run_at \div MinutesPerDay

\* C12: for a daily user whose runs have all succeeded, a trigger that
\* comes more than 23 hours after the user's previous run is not skipped by
\* the gate: it produces a run, also when it comes less than 24 hours after
\* the previous one.
C12_JitterTolerated ==
    [][\A u \in UserIds :
        LET mine == SelectSeq(automation_logs,
                              LAMBDA l : l.clerk_user_id = u)
        IN  (/\ run.active
             /\ u \in run.pending
             /\ u \notin run'.pending
             /\ clerk_users[u].frequency = "daily"
             /\ \A i \in 1..Len(mine) : mine[i].status = "success"
             /\ mine # <<>> =>
                    run.at - mine[Len(mine)].run_at > 23 * MinutesPerHour) =>
                /\ u \in run'.attempted
                /\ u \notin run'.skipped]_vars

\* Three triggers in a row, each more than 23 and less than 24 hours after
\* the one before, have each produced a successful run.
C12_Witness ==
    /\ Len(automation_logs) = 3
    /\ \A i \in 1..3 : /\ automation_logs[i].clerk_user_id = 1
                       /\ automation_logs[i].status = "success"
    /\ \A i \in 1..2 :
          LET gap == automation_logs[i + 1].run_at - automation_logs[i].run_at
          IN  gap > 23 * MinutesPerHour /\ gap < 24 * MinutesPerHour
    /\ automation_logs[3].run_at - automation_logs[2].run_at #
           automation_logs[2].run_at - automation_logs[1].run_at

\* C13: with every invocation coming from the one scheduler, no user gets
\* two successful automation runs inside one cadence window, also when an
\* invocation starts while the background task of an earlier one has read
\* the user's gate and not yet written last_auto_run_at.
C13_NoDoubleRunUnderOverlap ==
    \A i, j \in 1..Len(automation_logs) :
        (/\ i < j
         /\ automation_logs[i].clerk_user_id = automation_logs[j].clerk_user_id
         /\ automation_logs[i].status = "success"
         /\ automation_logs[j].status = "success") =>
            automation_logs[j].run_at - automation_logs[i].run_at >
                (IF clerk_users[automation_logs[i].clerk_user_id].frequency =
                        "daily"
                 THEN 23 ELSE 7 * 24)

\* C17: the response returned for an invocation reports that invocation's
\* run (users attempted, posts created, one errors entry per failed user)
\* while the endpoint acknowledges at once and runs in the background.
C17_ResponseReportsOwnRun ==
    (invocations > 0 /\ AsyncDone(background[Len(background)])) =>
        LET task == background[Len(background)]
        IN  /\ response.users_processed = Cardinality(task.attempted)
            /\ response.posts_created = task.posts_created
            /\ response.errors = task.errors

\* C18: while the confirm dialog is open, pressing confirm resolves the
\* promise of that dialog to true and pressing cancel, close or the
\* backdrop resolves it to false; either way its resolve function is called
\* once, the dialog is closed in the step that settles the promise, and a
\* settled promise never changes.
C18_ModalPromise ==
    /\ [](modalState.isOpen =>
            /\ modalResolveRef # Null
            /\ LET confirmed == ModalHandleConfirm(Ui)
                   closed == closeModal(Ui)
               IN  /\ confirmed.modalPromises[modalResolveRef] =
                          [state |-> "fulfilled", result |-> TRUE, calls |-> 1]
                   /\ ~confirmed.modalState.isOpen
                   /\ closed.modalPromises[modalResolveRef] =
                          [state |-> "fulfilled", result |-> FALSE, calls |-> 1]
                   /\ ~closed.modalState.isOpen)
    /\ [](\A i \in 1..Len(modalPromises) : modalPromises[i].calls <= 1)
    /\ [][\A i \in 1..Len(modalPromises) :
            /\ (/\ modalPromises[i].state = "pending"
                /\ modalPromises'[i].state = "fulfilled") =>
                   (~modalState'.isOpen /\ modalPromises'[i].calls = 1)
            /\ modalPromises[i].state = "fulfilled" =>
                   modalPromises'[i] = modalPromises[i]]_vars

\* One promise has been resolved to true and a later one to false, each by
\* one call, and the dialog is closed.
C18_Witness ==
    /\ ~modalState.isOpen
    /\ \E i, j \in 1..Len(modalPromises) :
          /\ i < j
          /\ modalPromises[i] =
                 [state |-> "fulfilled", result |-> TRUE, calls |-> 1]
          /\ modalPromises[j] =
                 [state |-> "fulfilled", result |-> FALSE, calls |-> 1]

\* C19: every promise returned by showModal is settled once the user has
\* confirmed or closed the dialog, also when showModal is called again
\* while the dialog is open.
C19_EveryPromiseSettles ==
    \A i \in 1..MaxModalShows :
        (i <= Len(modalPromises)) ~>
            (i <= Len(modalPromises) /\ modalPromises[i].state = "fulfilled")

\* C20: in the step that settles a promise returned by showInput the dialog
\* closes and the promise resolves either to null or to the text of the
\* field without the white space around it, which is not empty; while the
\* dialog is open, confirming blank text changes nothing, confirming other
\* text resolves to the trimmed text and closing resolves to null.
C20_InputPromise ==
    /\ [][\A i \in 1..Len(inputPromises) :
            (/\ inputPromises[i].state = "pending"
             /\ inputPromises'[i].state = "fulfilled") =>
                LET result == inputPromises'[i].result
                    text == result.text
                IN  /\ ~inputModalState'.isOpen
                    /\ inputPromises'[i].calls = 1
                    /\ \/ result.isNull
                       \/ /\ text # <<>>
                          /\ text[1] # " "
                          /\ text[Len(text)] # " "
                          /\ \E a \in 0..Len(value) :
                                /\ a + Len(text) <= Len(value)
                                /\ SubSeq(value, a + 1, a + Len(text)) = text
                                /\ \A k \in 1..Len(value) :
                                      (k <= a \/ k > a + Len(text)) =>
                                          value[k] = " "]_vars
    /\ [](inputModalState.isOpen =>
            /\ inputResolveRef # Null
            /\ LET confirmed == InputHandleConfirm(Ui)
                   closed == closeInputModal(Ui)
               IN  /\ IF \A k \in 1..Len(value) : value[k] = " "
                      THEN confirmed = Ui
                      ELSE /\ ~confirmed.inputModalState.isOpen
                           /\ confirmed.inputPromises[inputResolveRef].state =
                                  "fulfilled"
                           /\ ~confirmed.inputPromises[inputResolveRef]
                                  .result.isNull
                   /\ closed.inputPromises[inputResolveRef].result = NoText
                   /\ closed.inputPromises[inputResolveRef].state = "fulfilled"
                   /\ ~closed.inputModalState.isOpen)
    /\ [](\A i \in 1..Len(inputPromises) :
            (/\ inputPromises[i].state = "fulfilled"
             /\ ~inputPromises[i].result.isNull) =>
                inputPromises[i].result.text # <<>>)

\* A promise has been resolved to null and a later one to the text typed
\* with a space on either side of it, without the spaces.
C20_Witness ==
    /\ ~inputModalState.isOpen
    /\ value = <<" ", "a", " ">>
    /\ \E i, j \in 1..Len(inputPromises) :
          /\ i < j
          /\ inputPromises[i].state = "fulfilled"
          /\ inputPromises[i].result.isNull
          /\ inputPromises[j].state = "fulfilled"
          /\ inputPromises[j].result = [isNull |-> FALSE, text |-> <<"a">>]

C22_ProtectedContentGuarded ==
    /\ \A a \in AuthStates, children \in ProtectedScreens :
          ProtectedRoute(a, children) =
              IF ~a.isLoaded \/ ~a.isUserLoaded
              THEN [screen |-> "AppShellSkeleton", to |-> ""]
              ELSE IF a.isSignedIn /\ a.user # NoUser
              THEN [screen |-> children, to |-> ""]
              ELSE [screen |-> "Navigate", to |-> "/auth"]
    /\ RouteElement(location, auth).screen \in ProtectedScreens =>
          /\ auth.isLoaded
          /\ auth.isUserLoaded
          /\ auth.isSignedIn
          /\ auth.user # NoUser
          /\ location \in {"/", "/settings"}

\* The settings page is on screen for a signed-in user whose record has
\* been synced.
C22_Witness ==
    /\ RouteElement(location, auth).screen = "SettingsPage"
    /\ auth.isSignedIn
    /\ auth.user = "user_2"
    /\ lastSyncedSnapshot = "user_2"

\* C23: once every fetchPosts request has been answered with success, the
\* list the Dashboard holds is the response for the filter now selected,
\* whatever the order of arrival.
C23_PostsMatchFilter ==
    (/\ dashboard.mounted
     /\ \A i \in 1..Len(requests) : requests[i].state = "ok")
        => dashboard.posts = fetchPosts(dashboard.filter)

\* C24: handleSchedule sends a schedule request only for a current post
\* with a non-empty schedule input that parses to a time strictly later
\* than now, and the request names that post and time; a step that shows
\* the error toast has an unparsable input, a step that shows the warning
\* toast has a time at or before now, and neither sends a request nor
\* changes the current post.
C24_ScheduleGuarded ==
    [][/\ (/\ Len(requests') = Len(requests) + 1
           /\ requests'[Len(requests')].api = "schedulePost")
          => /\ dashboard.currentPost # NoPost
             /\ dashboard.scheduleFor # <<>>
             /\ DateParse(dashboard.scheduleFor) # NaN
             /\ DateParse(dashboard.scheduleFor) > now
             /\ requests'[Len(requests')].arg =
                  [id |-> dashboard.currentPost.id,
                   scheduled_for |-> DateParse(dashboard.scheduleFor)]
             /\ dashboard' = dashboard
       /\ (/\ Len(toasts') = Len(toasts) + 1
           /\ toasts'[Len(toasts')].message = "Invalid schedule time.")
          => /\ toasts'[Len(toasts')].type = "error"
             /\ dashboard.currentPost # NoPost
             /\ dashboard.scheduleFor # <<>>
             /\ DateParse(dashboard.scheduleFor) = NaN
             /\ requests' = requests
             /\ dashboard' = dashboard
       /\ (/\ Len(toasts') = Len(toasts) + 1
           /\ toasts'[Len(toasts')].message =
                 "Schedule time must be in the future.")
          => /\ toasts'[Len(toasts')].type = "warning"
             /\ dashboard.currentPost # NoPost
             /\ DateParse(dashboard.scheduleFor) # NaN
             /\ DateParse(dashboard.scheduleFor) <= now
             /\ requests' = requests
             /\ dashboard' = dashboard
       /\ (dashboard.currentPost = NoPost \/ dashboard.scheduleFor = <<>>)
          => SentSchedules' = SentSchedules
      ]_vars

\* A request was sent for a time after now, after a time equal to now was
\* refused with the warning.
C24_Witness ==
    /\ \E i \in 1..Len(requests) :
          /\ requests[i].api = "schedulePost"
          /\ requests[i].arg.scheduled_for > now
    /\ \E i \in 1..Len(toasts) :
          toasts[i].message = "Schedule time must be in the future."

\* C25: the Automations page sends a request that enables automation only
\* while the occupation saved for the user is not blank, and the user's row
\* is never enabled with a blank occupation.
C25_EnableNeedsSavedOccupation ==
    [][/\ (/\ Len(requests') = Len(requests) + 1
           /\ requests'[Len(requests')].api = "setAutomationSetting"
           /\ "enabled" \in DOMAIN requests'[Len(requests')].arg
           /\ requests'[Len(requests')].arg.enabled)
          => Trim(clerk_users[PageUser].occupation) # <<>>
       /\ (clerk_users'[PageUser].enabled /\ ~clerk_users[PageUser].enabled)
          => Trim(clerk_users'[PageUser].occupation) # <<>>
      ]_vars

\* C26: every toast in the list is eventually removed from it, whatever
\* other toasts and dialogs are shown and closed in the meantime.
C26_ToastEventuallyRemoved ==
    \A id \in ToastIds :
        (id \in ToastIdsShown(toasts)) ~> (id \notin ToastIdsShown(toasts))

\* C27: activityData has exactly 14 entries, entry i for the i-th of the 14
\* consecutive calendar days that end with today, and the count of an entry
\* is the number of posts with a valid created_at on that calendar day.
C27_FourteenDayBuckets ==
    activity.computed =>
        LET today == LocalDay(activity.zone, activity.now) IN
        /\ Len(activity.data) = Days
        /\ \A i \in 1..Len(activity.data) :
              /\ activity.data[i].day = today - Days + i
              /\ activity.data[i].count =
                    Cardinality({p \in Dated(activity.created) :
                        LocalDay(activity.zone, activity.created[p].t)
                           = today - Days + i})

====
